---- MODULE Spec2Model ----
(***************************************************************************)
(* Veo Studio (src/App.tsx): the history/extension controller and the      *)
(* sequence playback controller of the App component, as a state machine.  *)
(* One action per event handler; a handler's setState calls and the        *)
(* effects that follow the resulting render are one atomic step.           *)
(***************************************************************************)
EXTENDS Integers, Sequences, FiniteSets

\* ---------------------------------------------------------------- bounds
\* Number of generation/extension requests a behaviour may issue (caps the
\* request counter, and with it the history length).
MaxRequests == 3

\* ------------------------------------------------------ program constants
IDLE == "idle"
GENERATING == "generating"
EXTENDING == "extending"
ERROR == "error"

\* error: string | null
NullError == "<null>"
DefaultErrorMessage == "An unexpected error occurred."

AspectRatio == {"16:9", "9:16"}

\* ------------------------------------------------------------ input sets
\* Prompt texts the user may type, as sequences of characters.
Prompts == { <<>>, <<" ">>, <<"a">>, <<" ", "b", " ">> }

\* err.message values the generation collaborator may fail with.
ErrMessages == { "", "quota exceeded" }

\* No asset: the request was not an extension.
NoAsset == 0

VARIABLES
  hasApiKey,          \* useState(!!import.meta.env.VITE_API_KEY)
  mounted,            \* the component tree is mounted (no effect has thrown)
  prompt,             \* useState('')
  aspectRatio,        \* useState('16:9')
  status,             \* useState(GenerationStatus.IDLE)
  error,              \* useState(null)
  history,            \* useState([])
  isSequencePlaying,  \* useState(false)
  sequenceIndex,      \* useState(0), 0-based
  inflight,           \* handleGenerate calls suspended at their await
  nextId,             \* next fresh request / entry / asset identity
  lastOp,             \* the operation that produced this state, with its inputs
  resetEpoch,         \* the value of nextId at the last confirmed handleReset:
                      \* requests with a smaller rid were issued before it
  visited             \* indices shown as Playing since playback was started,
                      \* with only clip-ended events in between

progVars == <<hasApiKey, mounted, prompt, aspectRatio, status, error, history,
              isSequencePlaying, sequenceIndex, inflight, nextId>>
vars == <<hasApiKey, mounted, prompt, aspectRatio, status, error, history,
          isSequencePlaying, sequenceIndex, inflight, nextId, lastOp,
          resetEpoch, visited>>

\* The value of lastOp: the operation's name with its inputs (the answer to a
\* confirm() dialog, the index clicked, the request completed and the message
\* it failed with); inputs an operation does not have keep a fixed value.
NoRequest ==
  [ rid |-> 0, isExtending |-> FALSE, prompt |-> <<>>, aspectRatio |-> "16:9",
    lastAsset |-> 0, history |-> <<>> ]
OpRecord(name, ok, idx, req, msg) ==
  [op |-> name, ok |-> ok, idx |-> idx, req |-> req, msg |-> msg]
Op(name) == OpRecord(name, FALSE, 0, NoRequest, "")
OpConfirm(name, ok) == OpRecord(name, ok, 0, NoRequest, "")
OpIndex(name, idx) == OpRecord(name, FALSE, idx, NoRequest, "")
OpRequest(name, req, msg) == OpRecord(name, FALSE, 0, req, msg)

\* ----------------------------------------------------------- pure helpers
IsSpace(c) == c = " "

RECURSIVE TrimStart(_)
TrimStart(s) ==
  IF s = <<>> THEN <<>>
  ELSE IF IsSpace(Head(s)) THEN TrimStart(Tail(s)) ELSE s

RECURSIVE TrimEnd(_)
TrimEnd(s) ==
  IF s = <<>> THEN <<>>
  ELSE IF IsSpace(s[Len(s)]) THEN TrimEnd(SubSeq(s, 1, Len(s) - 1)) ELSE s

\* String.prototype.trim
Trim(s) == TrimEnd(TrimStart(s))

\* !prompt.trim()
PromptBlank(p) == Trim(p) = <<>>

\* The sequence playback effect: history[sequenceIndex].url throws when the
\* overlay is shown and the index is outside the history.
EffectOK(h, playing, idx) == (~playing) \/ idx < Len(h)

\* The App renders its interface (API key present, tree mounted).
Rendered == hasApiKey /\ mounted

\* ------------------------------------------------------------------ Init
Init ==
  /\ hasApiKey \in BOOLEAN
  /\ mounted = TRUE
  /\ prompt = <<>>
  /\ aspectRatio = "16:9"
  /\ status = IDLE
  /\ error = NullError
  /\ history = <<>>
  /\ isSequencePlaying = FALSE
  /\ sequenceIndex = 0
  /\ inflight = {}
  /\ nextId = 1
  /\ lastOp = Op("init")
  /\ resetEpoch = 0
  /\ visited = <<>>

\* --------------------------------------------------------------- actions
\* <ApiKeySelector onKeySelected={() => setHasApiKey(true)} />
KeySelected ==
  /\ mounted /\ ~hasApiKey
  /\ hasApiKey' = TRUE
  /\ lastOp' = Op("key")
  /\ UNCHANGED resetEpoch
  /\ visited' = <<>>
  /\ UNCHANGED <<mounted, prompt, aspectRatio, status, error, history,
                 isSequencePlaying, sequenceIndex, inflight, nextId>>

\* textarea onChange={(e) => setPrompt(e.target.value)}
SetPrompt ==
  /\ Rendered
  /\ \E p \in Prompts :
       /\ prompt' = p
       /\ lastOp' = Op("prompt")
  /\ UNCHANGED resetEpoch
  /\ visited' = <<>>
  /\ UNCHANGED <<hasApiKey, mounted, aspectRatio, status, error, history,
                 isSequencePlaying, sequenceIndex, inflight, nextId>>

\* The aspect ratio toggle, rendered only while the history is empty.
SetAspectRatio ==
  /\ Rendered
  /\ Len(history) = 0
  /\ \E r \in AspectRatio :
       /\ aspectRatio' = r
       /\ lastOp' = Op("aspect")
  /\ UNCHANGED resetEpoch
  /\ visited' = <<>>
  /\ UNCHANGED <<hasApiKey, mounted, prompt, status, error, history,
                 isSequencePlaying, sequenceIndex, inflight, nextId>>

\* Mutant of isExtendingOf: the emptiness test is off by one.
isExtendingOf_OffByOne(h) == Len(h) > 1

\* handleGenerate up to its await: the validation, setError(null),
\* setStatus(...), and the call of extendVideo / generateInitialVideo.
isExtendingOf(h) == Len(h) > 0
HandleGenerate ==
  IF PromptBlank(prompt) THEN UNCHANGED progVars
  ELSE
    LET isExtending == isExtendingOf(history)
        req == [ rid         |-> nextId,
                 isExtending |-> isExtending,
                 prompt      |-> prompt,
                 aspectRatio |-> aspectRatio,
                 lastAsset   |-> IF isExtending
                                 THEN history[Len(history)].veoAsset
                                 ELSE NoAsset,
                 history     |-> history ]
    IN /\ error' = NullError
       /\ status' = IF isExtending THEN EXTENDING ELSE GENERATING
       /\ inflight' = inflight \cup {req}
       /\ nextId' = nextId + 1
       /\ UNCHANGED <<hasApiKey, mounted, prompt, aspectRatio, history,
                      isSequencePlaying, sequenceIndex>>

\* Mutant of SubmitEnter: the Enter key does not test the phase.
SubmitEnter_NoPhaseGuard ==
  /\ Rendered
  /\ nextId <= MaxRequests
  /\ lastOp' = Op("submit")
  /\ UNCHANGED resetEpoch
  /\ visited' = <<>>
  /\ HandleGenerate

\* textarea onKeyDown: Enter without Shift.
SubmitEnter ==
  /\ Rendered
  /\ nextId <= MaxRequests
  /\ lastOp' = Op("submit")
  /\ UNCHANGED resetEpoch
  /\ visited' = <<>>
  /\ IF status = IDLE THEN HandleGenerate ELSE UNCHANGED progVars

\* The Generate / Extend button, disabled={status !== IDLE || !prompt.trim()}.
SubmitButton ==
  /\ Rendered
  /\ nextId <= MaxRequests
  /\ lastOp' = Op("submit")
  /\ UNCHANGED resetEpoch
  /\ visited' = <<>>
  /\ IF ~(status # IDLE \/ PromptBlank(prompt))
     THEN HandleGenerate ELSE UNCHANGED progVars

\* Mutant of NewItem: the entry takes the prompt field's current text.
NewItem_CurrentPrompt(r) ==
  [ id           |-> r.rid,
    prompt       |-> prompt,
    veoAsset     |-> r.rid,
    isExtension  |-> r.isExtending,
    extendedFrom |-> r.lastAsset,
    aspectRatio  |-> r.aspectRatio ]

\* The entry handleGenerate builds from a resolved request. extendedFrom and
\* aspectRatio record the arguments of the request that produced the clip.
NewItem(r) ==
  [ id           |-> r.rid,
    prompt       |-> r.prompt,
    veoAsset     |-> r.rid,
    isExtension  |-> r.isExtending,
    extendedFrom |-> r.lastAsset,
    aspectRatio  |-> r.aspectRatio ]

\* handleGenerate after its await resolved.
Resolve ==
  /\ mounted
  /\ \E r \in inflight :
       /\ history' = Append(history, NewItem(r))
       /\ prompt' = <<>>
       /\ status' = IDLE
       /\ inflight' = inflight \ {r}
       /\ lastOp' = OpRequest("resolve", r, "")
  /\ mounted' = EffectOK(history', isSequencePlaying, sequenceIndex)
  /\ UNCHANGED resetEpoch
  /\ visited' = <<>>
  /\ UNCHANGED <<hasApiKey, aspectRatio, error, isSequencePlaying,
                 sequenceIndex, nextId>>

\* err.message || "An unexpected error occurred."
ErrorText(m) == IF m = "" THEN DefaultErrorMessage ELSE m

\* handleGenerate after its await rejected: the catch block.
Reject ==
  /\ mounted
  /\ \E r \in inflight, m \in ErrMessages :
       /\ error' = ErrorText(m)
       /\ status' = ERROR
       /\ inflight' = inflight \ {r}
       /\ lastOp' = OpRequest("reject", r, m)
  /\ UNCHANGED resetEpoch
  /\ visited' = <<>>
  /\ UNCHANGED <<hasApiKey, mounted, prompt, aspectRatio, history,
                 isSequencePlaying, sequenceIndex, nextId>>

\* handleGenerate resuming after its await once the tree is unmounted: the
\* request is over and its setState calls have no effect.
SettleUnmounted ==
  /\ ~mounted
  /\ \E r \in inflight :
       /\ inflight' = inflight \ {r}
       /\ lastOp' = OpRequest("settled", r, "")
  /\ UNCHANGED resetEpoch
  /\ visited' = <<>>
  /\ UNCHANGED <<hasApiKey, mounted, prompt, aspectRatio, status, error,
                 history, isSequencePlaying, sequenceIndex, nextId>>

\* Mutant of HandleReset: the phase is not set back to Idle.
HandleReset_KeepsStatus(confirmed) ==
  IF confirmed
  THEN /\ history' = <<>>
       /\ prompt' = <<>>
       /\ error' = NullError
       /\ mounted' = EffectOK(history', isSequencePlaying, sequenceIndex)
       /\ UNCHANGED <<hasApiKey, aspectRatio, status, isSequencePlaying,
                      sequenceIndex, inflight, nextId>>
  ELSE UNCHANGED progVars

\* handleReset, with the answer given to its confirm() dialog.
HandleReset(confirmed) ==
  IF confirmed
  THEN /\ history' = <<>>
       /\ prompt' = <<>>
       /\ error' = NullError
       /\ status' = IDLE
       /\ mounted' = EffectOK(history', isSequencePlaying, sequenceIndex)
       /\ UNCHANGED <<hasApiKey, aspectRatio, isSequencePlaying,
                      sequenceIndex, inflight, nextId>>
  ELSE UNCHANGED progVars

\* The New Project button, rendered while history.length > 0.
Reset ==
  /\ Rendered
  /\ Len(history) > 0
  /\ \E c \in BOOLEAN :
       /\ HandleReset(c)
       /\ lastOp' = OpConfirm("reset", c)
       /\ resetEpoch' = IF c THEN nextId ELSE resetEpoch
  /\ visited' = <<>>

\* Mutant of HandleUndo: slice(1) instead of slice(0, -1).
HandleUndo_DropsFirst(confirmed) ==
  IF Len(history) = 0 THEN UNCHANGED progVars
  ELSE IF confirmed
  THEN /\ history' = Tail(history)
       /\ mounted' = EffectOK(history', isSequencePlaying, sequenceIndex)
       /\ UNCHANGED <<hasApiKey, prompt, aspectRatio, status, error,
                      isSequencePlaying, sequenceIndex, inflight, nextId>>
  ELSE UNCHANGED progVars

\* handleUndo, with the answer given to its confirm() dialog.
HandleUndo(confirmed) ==
  IF Len(history) = 0 THEN UNCHANGED progVars
  ELSE IF confirmed
  THEN /\ history' = SubSeq(history, 1, Len(history) - 1)
       /\ mounted' = EffectOK(history', isSequencePlaying, sequenceIndex)
       /\ UNCHANGED <<hasApiKey, prompt, aspectRatio, status, error,
                      isSequencePlaying, sequenceIndex, inflight, nextId>>
  ELSE UNCHANGED progVars

\* Mutant of Undo: the button is also rendered on the base clip.
Undo_OfferedOnBase ==
  /\ Rendered
  /\ Len(history) > 0
  /\ \E c \in BOOLEAN :
       /\ HandleUndo(c)
       /\ lastOp' = OpConfirm("undo", c)
  /\ UNCHANGED resetEpoch
  /\ visited' = <<>>

\* The Undo button, rendered on the last entry when its index is > 0.
Undo ==
  /\ Rendered
  /\ Len(history) > 1
  /\ \E c \in BOOLEAN :
       /\ HandleUndo(c)
       /\ lastOp' = OpConfirm("undo", c)
  /\ UNCHANGED resetEpoch
  /\ visited' = <<>>

\* handleUndo called directly, whatever the interface renders.
UndoCall ==
  /\ Rendered
  /\ \E c \in BOOLEAN :
       /\ HandleUndo(c)
       /\ lastOp' = OpConfirm("undo", c)
  /\ UNCHANGED resetEpoch
  /\ visited' = <<>>

\* Mutant of StartSequencePlayback: starting playback also sets the phase.
StartSequencePlayback_SetsIdle ==
  /\ Rendered
  /\ Len(history) > 0
  /\ sequenceIndex' = 0
  /\ isSequencePlaying' = TRUE
  /\ status' = IDLE
  /\ mounted' = EffectOK(history, isSequencePlaying', sequenceIndex')
  /\ lastOp' = OpIndex("start", 0)
  /\ UNCHANGED resetEpoch
  /\ visited' = <<sequenceIndex'>>
  /\ UNCHANGED <<hasApiKey, prompt, aspectRatio, error, history,
                 inflight, nextId>>

\* startSequencePlayback, behind the Play Sequence button
\* (rendered while history.length > 0).
StartSequencePlayback ==
  /\ Rendered
  /\ Len(history) > 0
  /\ IF Len(history) = 0
     THEN UNCHANGED <<sequenceIndex, isSequencePlaying>>
     ELSE /\ sequenceIndex' = 0
          /\ isSequencePlaying' = TRUE
  /\ mounted' = EffectOK(history, isSequencePlaying', sequenceIndex')
  /\ lastOp' = OpIndex("start", 0)
  /\ UNCHANGED resetEpoch
  /\ visited' = IF isSequencePlaying' THEN <<sequenceIndex'>> ELSE <<>>
  /\ UNCHANGED <<hasApiKey, prompt, aspectRatio, status, error, history,
                 inflight, nextId>>

\* The "Play from here" button of the entry at a given index.
PlayFromHere ==
  /\ Rendered
  /\ \E index \in 0 .. (Len(history) - 1) :
       /\ sequenceIndex' = index
       /\ isSequencePlaying' = TRUE
       /\ lastOp' = OpIndex("start", index)
  /\ mounted' = EffectOK(history, isSequencePlaying', sequenceIndex')
  /\ UNCHANGED resetEpoch
  /\ visited' = IF isSequencePlaying' THEN <<sequenceIndex'>> ELSE <<>>
  /\ UNCHANGED <<hasApiKey, prompt, aspectRatio, status, error, history,
                 inflight, nextId>>

\* Mutant of HandleSequenceEnded: the last-clip test is off by one.
HandleSequenceEnded_OffByOne ==
  /\ Rendered
  /\ isSequencePlaying
  /\ IF sequenceIndex < Len(history)
     THEN /\ sequenceIndex' = sequenceIndex + 1
          /\ UNCHANGED isSequencePlaying
     ELSE /\ isSequencePlaying' = FALSE
          /\ sequenceIndex' = 0
  /\ mounted' = EffectOK(history, isSequencePlaying', sequenceIndex')
  /\ lastOp' = Op("ended")
  /\ UNCHANGED resetEpoch
  /\ visited' = IF isSequencePlaying'
                THEN Append(visited, sequenceIndex') ELSE visited
  /\ UNCHANGED <<hasApiKey, prompt, aspectRatio, status, error, history,
                 inflight, nextId>>

\* handleSequenceEnded, the onEnded handler of the overlay's video element
\* (rendered while isSequencePlaying).
HandleSequenceEnded ==
  /\ Rendered
  /\ isSequencePlaying
  /\ IF sequenceIndex < Len(history) - 1
     THEN /\ sequenceIndex' = sequenceIndex + 1
          /\ UNCHANGED isSequencePlaying
     ELSE /\ isSequencePlaying' = FALSE
          /\ sequenceIndex' = 0
  /\ mounted' = EffectOK(history, isSequencePlaying', sequenceIndex')
  /\ lastOp' = Op("ended")
  /\ UNCHANGED resetEpoch
  /\ visited' = IF isSequencePlaying'
                THEN Append(visited, sequenceIndex') ELSE visited
  /\ UNCHANGED <<hasApiKey, prompt, aspectRatio, status, error, history,
                 inflight, nextId>>

\* Mutant of StopSequence: the overlay closes only on the last clip.
StopSequence_OnlyOnLast ==
  /\ Rendered
  /\ isSequencePlaying
  /\ isSequencePlaying' = (sequenceIndex < Len(history) - 1)
  /\ lastOp' = Op("stop")
  /\ UNCHANGED resetEpoch
  /\ visited' = <<>>
  /\ UNCHANGED <<hasApiKey, mounted, prompt, aspectRatio, status, error,
                 history, sequenceIndex, inflight, nextId>>

\* The overlay's close button: onClick={() => setIsSequencePlaying(false)}.
StopSequence ==
  /\ Rendered
  /\ isSequencePlaying
  /\ isSequencePlaying' = FALSE
  /\ lastOp' = Op("stop")
  /\ UNCHANGED resetEpoch
  /\ visited' = <<>>
  /\ UNCHANGED <<hasApiKey, mounted, prompt, aspectRatio, status, error,
                 history, sequenceIndex, inflight, nextId>>

\* --------------------------------------------------------- specifications
Next ==
  \/ KeySelected
  \/ SetPrompt
  \/ SetAspectRatio
  \/ SubmitEnter
  \/ SubmitButton
  \/ Resolve
  \/ Reject
  \/ SettleUnmounted
  \/ Reset
  \/ Undo
  \/ StartSequencePlayback
  \/ PlayFromHere
  \/ HandleSequenceEnded
  \/ StopSequence

Spec == Init /\ [][Next]_vars

\* The generation collaborator eventually resolves or fails each request, and
\* the suspended handleGenerate call then resumes.
SpecFair ==
  /\ Init /\ [][Next]_vars
  /\ WF_vars(Resolve \/ Reject)
  /\ WF_vars(SettleUnmounted)

\* The interface with handleUndo also callable directly (its own guard, not
\* the rendering condition of its button, decides).
NextH ==
  \/ Next
  \/ UndoCall

SpecH == Init /\ [][NextH]_vars

\* Successful submits only, each completed before the next user action.
Quiet == inflight = {}
SeqSetPrompt == Quiet /\ SetPrompt
SeqSetAspectRatio == Quiet /\ SetAspectRatio
SeqSubmitEnter == Quiet /\ SubmitEnter
SeqSubmitButton == Quiet /\ SubmitButton

NextSeq ==
  \/ KeySelected
  \/ SeqSetPrompt
  \/ SeqSetAspectRatio
  \/ SeqSubmitEnter
  \/ SeqSubmitButton
  \/ Resolve

SpecSeq == Init /\ [][NextSeq]_vars

\* ------------------------------------------------------------------ claims

\* C1: at most one generation/extension request is outstanding in every
\* reachable state.
C1_AtMostOneOutstanding == Cardinality(inflight) <= 1

\* C2: a submit with a non-empty prompt issued while the phase is Error is
\* accepted: the phase becomes Generating or Extending.
C2_RetryAcceptedFromError ==
  [][ (lastOp'.op = "submit" /\ status = ERROR /\ ~PromptBlank(prompt))
        => status' \in {GENERATING, EXTENDING} ]_vars

\* C3: chain invariant: every entry after the first was produced by an
\* extension request that used the asset of the entry now right before it.
C3_ChainInvariant ==
  \A i \in 2 .. Len(history) :
    /\ history[i].isExtension
    /\ history[i].extendedFrom = history[i - 1].veoAsset

\* C4: in a sequence of successful submits, each completed before the next
\* user action, every completion lengthens the history by exactly one and
\* entry i's extension flag equals (i > 0).
C4_SuccessfulSubmits ==
  [][ lastOp'.op = "resolve"
        => /\ Len(history') = Len(history) + 1
           /\ \A i \in 1 .. Len(history') :
                history'[i].isExtension = (i > 1) ]_vars

C4_Witness ==
  /\ lastOp.op = "resolve"
  /\ Len(history) = 3
  /\ lastOp.req.isExtending

\* C5: in every reachable state the entry at index 0 has its extension flag
\* false and every later entry has it true.
C5_ExtensionFlags ==
  \A i \in 1 .. Len(history) : history[i].isExtension = (i > 1)

\* C6: a submit made while the prompt is blank or the phase is not Idle
\* changes nothing: no state variable changes and no request is issued.
C6_RejectedSubmit ==
  [][ (lastOp'.op = "submit" /\ (PromptBlank(prompt) \/ status # IDLE))
        => UNCHANGED progVars ]_vars

\* A submit with a non-blank prompt was rejected while a request is in flight
\* (an accepted submit would have left a request carrying the current prompt).
C6_Witness ==
  /\ lastOp.op = "submit"
  /\ status = EXTENDING
  /\ ~PromptBlank(prompt)
  /\ inflight # {}
  /\ \A r \in inflight : r.prompt # prompt

\* C7: after a request failed, the phase is Error, the failure's message is
\* the last error, and the history is what it was when the request was
\* issued.
C7_FailureLeavesHistory ==
  lastOp.op = "reject"
    => /\ status = ERROR
       /\ (lastOp.msg # "" => error = lastOp.msg)
       /\ history = lastOp.req.history

\* C8: a confirmed undo on a non-empty history removes exactly the last
\* entry, keeps the other entries, their order and the phase; an undo on an
\* empty history changes nothing.
C8_UndoFrame ==
  [][ lastOp'.op = "undo"
        => IF Len(history) = 0
           THEN UNCHANGED progVars
           ELSE lastOp'.ok
                  => /\ Len(history') = Len(history) - 1
                     /\ \A i \in 1 .. Len(history') : history'[i] = history[i]
                     /\ status' = status ]_vars

\* A confirmed undo removed the second entry while an extension was in flight.
C8_Witness ==
  /\ lastOp = OpConfirm("undo", TRUE)
  /\ Len(history) = 1
  /\ status = EXTENDING

\* C9: right after a confirmed resetProject the history and the prompt are
\* empty, the error is cleared and the phase is Idle.
C9_AfterReset ==
  lastOp = OpConfirm("reset", TRUE)
    => /\ history = <<>>
       /\ prompt = <<>>
       /\ error = NullError
       /\ status = IDLE

\* A confirmed reset happened while a request was in flight.
C9_Witness ==
  /\ lastOp = OpConfirm("reset", TRUE)
  /\ inflight # {}

\* C10: playback started at index k and driven only by clip-ended events
\* shows k, k+1, ... in order; it stops after index N-1 and not before, with
\* the index reset to 0.
C10_PlaybackInOrder ==
  visited # <<>>
    => /\ \A j \in 1 .. Len(visited) : visited[j] = visited[1] + (j - 1)
       /\ IF isSequencePlaying
          THEN /\ sequenceIndex = visited[Len(visited)]
               /\ sequenceIndex < Len(history)
          ELSE /\ visited[Len(visited)] = Len(history) - 1
               /\ sequenceIndex = 0

\* Playback started at index 1 of three clips has run to its end.
C10_Witness ==
  /\ lastOp.op = "ended"
  /\ ~isSequencePlaying
  /\ visited = <<1, 2>>
  /\ Len(history) = 3
  /\ sequenceIndex = 0

\* C11: whenever sequence playback is active, the playback index is inside
\* the history: 0 <= sequenceIndex < history length.
C11_PlayingIndexInBounds ==
  isSequencePlaying => (0 <= sequenceIndex /\ sequenceIndex < Len(history))

\* C12: stop, invoked in any Playing(i), yields Stopped in the next state,
\* whatever i is and however many clips remain.
C12_StopStops ==
  [][ lastOp'.op = "stop" => (isSequencePlaying /\ ~isSequencePlaying') ]_vars

\* Playback was stopped on the first of three clips, two clips remaining.
C12_Witness ==
  /\ lastOp.op = "stop"
  /\ ~isSequencePlaying
  /\ sequenceIndex = 0
  /\ Len(history) = 3

\* C13: the playback operations (start, start from an index, clip ended,
\* stop) change only the playing flag and the playback index.
C13_PlaybackFrame ==
  [][ lastOp'.op \in {"start", "ended", "stop"}
        => UNCHANGED <<hasApiKey, mounted, prompt, aspectRatio, status, error,
                       history, inflight, nextId>> ]_vars

\* A clip ended while the phase was Error with a message shown and a prompt
\* typed.
C13_Witness ==
  /\ lastOp.op = "ended"
  /\ status = ERROR
  /\ error # NullError
  /\ ~PromptBlank(prompt)
  /\ Len(history) >= 1

\* C14: every extension request carries the aspect ratio that was sent with
\* the request that generated the first clip of the sequence it extends.
C14_AspectFixedByFirstClip ==
  \A r \in inflight :
    r.isExtending => r.aspectRatio = r.history[1].aspectRatio

\* C15: on success the appended entry carries the prompt the request was
\* submitted with, the prompt field is cleared and the phase is Idle.
C15_EntryKeepsSubmittedPrompt ==
  lastOp.op = "resolve"
    => /\ Len(history) >= 1
       /\ history[Len(history)].prompt = lastOp.req.prompt
       /\ history[Len(history)].id = lastOp.req.rid
       /\ prompt = <<>>
       /\ status = IDLE

\* Two requests submitted with different prompts have both succeeded.
C15_Witness ==
  /\ lastOp.op = "resolve"
  /\ Len(history) = 2
  /\ history[1].prompt = <<"a">>
  /\ history[2].prompt = <<" ", "b", " ">>

\* C16: once the history is non-empty only a confirmed resetProject empties
\* it, and the history length after any undo offered by the interface is at
\* least 1.
C16_OnlyResetEmpties ==
  [][ /\ (Len(history) > 0 /\ Len(history') = 0)
           => lastOp' = OpConfirm("reset", TRUE)
      /\ lastOp'.op = "undo" => Len(history') >= 1 ]_vars

\* A confirmed undo has left only the base clip.
C16_Witness ==
  /\ lastOp = OpConfirm("undo", TRUE)
  /\ Len(history) = 1
  /\ ~history[1].isExtension

\* C17: a request issued before a confirmed resetProject never affects the
\* new project: after the reset every history entry comes from a request
\* issued after it, and until a submit is issued after the reset the history
\* is empty and the phase is Idle.
C17_StaleRequestIgnored ==
  resetEpoch > 0
    => /\ \A i \in 1 .. Len(history) : history[i].id >= resetEpoch
       /\ nextId = resetEpoch => (history = <<>> /\ status = IDLE)

\* C18: in every reachable state the last error is non-null exactly when the
\* phase is Error.
C18_ErrorIffErrorPhase == (error # NullError) <=> (status = ERROR)

\* C19: the phase is Generating or Extending only while some request is in
\* flight, and whenever it is Generating or Extending it eventually becomes
\* Idle or Error.
Busy == {GENERATING, EXTENDING}
C19_BusyEventuallyEnds ==
  /\ [](status \in Busy => inflight # {})
  /\ (status \in Busy) ~> (status \in {IDLE, ERROR})

====
